---- MODULE Spec2Model ----
(***************************************************************************)
(* Model of video_editor.py: the time / interval parser (parse_time,       *)
(* parse_intervals), the three media operations (montaggio_audio,          *)
(* estrai_intervalli, get_video_length) and the command line driver main.  *)
(*                                                                         *)
(* Text is a sequence of one-character strings, so that str.split and      *)
(* int() are computed character by character as Python computes them.      *)
(***************************************************************************)
EXTENDS Integers, Sequences, FiniteSets, TLC

VARIABLES
    entry,       \* the function under call: "parse_time", "parse_intervals" or "main"
    shape,       \* how the input text was put together (components / tokens)
    text,        \* the time or interval string
    pc,          \* position in the call
    ret,         \* value returned by the last completed function
    exc,         \* exception in flight or last raised
    log,         \* lines appended to log.txt
    op,          \* main: the selected option, "audio", "extract" or "length"
    vdur, adur,  \* duration of the video input and of the audio input
    handles,     \* every media object created, with its number of close() calls
    video,       \* local 'video': index in handles, 0 when unbound
    audio,       \* local 'audio': index in handles, 0 when unbound or None
    intervals,   \* the list handed to estrai_intervalli
    clips,       \* local 'clips': indexes in handles
    calls,       \* the (start, end) arguments given to video.subclip
    attached,    \* duration of the audio given to set_audio, -1 before
    out,         \* lines printed on standard output
    exitStatus   \* exit status of the process, -1 while it runs

parseVars == <<entry, shape, text, pc, ret, exc, log>>
mediaVars == <<op, vdur, adur, handles, video, audio, intervals, clips, calls, attached,
               out, exitStatus>>
vars == <<parseVars, mediaVars>>

----------------------------------------------------------------------------
(* Bounds of the explored inputs *)

MaxComps == 4
MaxTokens == 2

(* start, end = map(parse_time, ...): the number of unpack targets *)
UnpackTargets == 2

(* end = start + 60 *)
DefaultWindow == 60

----------------------------------------------------------------------------
(* Text helpers *)

Digits == {"0", "1", "2", "3", "4", "5", "6", "7", "8", "9"}

DigitVal(c) ==
    CASE c = "0" -> 0 [] c = "1" -> 1 [] c = "2" -> 2 [] c = "3" -> 3
      [] c = "4" -> 4 [] c = "5" -> 5 [] c = "6" -> 6 [] c = "7" -> 7
      [] c = "8" -> 8 [] c = "9" -> 9

Contains(s, c) == \E i \in 1..Len(s) : s[i] = c

FirstIndex(s, c) == CHOOSE i \in 1..Len(s) : s[i] = c /\ \A j \in 1..(i-1) : s[j] # c

(* str.split(sep) with a one-character separator: always at least one part *)
RECURSIVE SplitOn(_, _)
SplitOn(s, sep) ==
    IF ~Contains(s, sep) THEN <<s>>
    ELSE LET i == FirstIndex(s, sep)
         IN  <<SubSeq(s, 1, i - 1)>> \o SplitOn(SubSeq(s, i + 1, Len(s)), sep)

(* sep.join(parts) *)
RECURSIVE JoinWith(_, _)
JoinWith(parts, sep) ==
    IF Len(parts) = 0 THEN <<>>
    ELSE IF Len(parts) = 1 THEN parts[1]
    ELSE parts[1] \o <<sep>> \o JoinWith(Tail(parts), sep)

(* str.strip() restricted to the blank character *)
RECURSIVE LStrip(_)
LStrip(s) == IF Len(s) > 0 /\ s[1] = " " THEN LStrip(Tail(s)) ELSE s

RECURSIVE RStrip(_)
RStrip(s) == IF Len(s) > 0 /\ s[Len(s)] = " " THEN RStrip(SubSeq(s, 1, Len(s) - 1)) ELSE s

(* mutant: the body may be empty and '_' may stand anywhere *)
DigitBodyOkLoose(s) == \A i \in 1..Len(s) : s[i] \in Digits \/ s[i] = "_"

(* The digit body of an int() literal: digits, single '_' only between digits *)
DigitBodyOk(s) ==
    /\ Len(s) > 0
    /\ \A i \in 1..Len(s) : s[i] \in Digits \/ s[i] = "_"
    /\ s[1] # "_" /\ s[Len(s)] # "_"
    /\ \A i \in 1..(Len(s) - 1) : ~(s[i] = "_" /\ s[i + 1] = "_")

RECURSIVE DigitsValue(_, _)
DigitsValue(s, acc) ==
    IF Len(s) = 0 THEN acc
    ELSE IF s[1] = "_" THEN DigitsValue(Tail(s), acc)
    ELSE DigitsValue(Tail(s), acc * 10 + DigitVal(s[1]))

(* int(token): blanks stripped, optional sign, decimal digits *)
IntBody(s) == IF Len(s) > 0 /\ s[1] \in {"+", "-"} THEN Tail(s) ELSE s

IntOf(tok) ==
    LET s == RStrip(LStrip(tok))
        body == IntBody(s)
    IN  IF ~DigitBodyOk(body) THEN [ok |-> FALSE, val |-> 0]
        ELSE IF Len(s) > 0 /\ s[1] = "-"
             THEN [ok |-> TRUE, val |-> 0 - DigitsValue(body, 0)]
             ELSE [ok |-> TRUE, val |-> DigitsValue(body, 0)]

----------------------------------------------------------------------------
(* Outcomes of a call: a returned value or a raised exception *)

NoExc == [type |-> "none", msg |-> "none"]
ValueError(m) == [type |-> "ValueError", msg |-> m]

Returned(v, l) == [ok |-> TRUE, val |-> v, exc |-> NoExc, log |-> l]
Raised(e, l) == [ok |-> FALSE, val |-> <<>>, exc |-> e, log |-> l]

(* map(int, parts) consumed left to right: index of the first part int() rejects, 0 if none *)
FirstBadInt(parts) ==
    IF \A i \in 1..Len(parts) : IntOf(parts[i]).ok THEN 0
    ELSE CHOOSE i \in 1..Len(parts) :
            ~IntOf(parts[i]).ok /\ \A j \in 1..(i - 1) : IntOf(parts[j]).ok

(* mutant: seconds roll over at 60 *)
ToSecondsRollover(minutes, seconds) == minutes * 60 + (seconds % 60)

(* mutant: the factor 60 applied to the wrong operand *)
ToSecondsSwapped(minutes, seconds) == minutes + seconds * 60

(* minutes * 60 + seconds *)
ToSeconds(minutes, seconds) == minutes * 60 + seconds

(* minutes += hours * 60 *)
FoldHours(hours, minutes) == minutes + hours * 60

(* parse_time(time_str) *)
parse_time(time_str) ==
    LET parts == SplitOn(time_str, ":")
        n == Len(parts)
        errlog == <<"ERROR parse_time">>
    IN  IF n = 2 THEN
            IF FirstBadInt(parts) # 0 THEN Raised(ValueError("invalid literal for int()"), errlog)
            ELSE Returned(ToSeconds(IntOf(parts[1]).val, IntOf(parts[2]).val), <<>>)
        ELSE IF n = 3 THEN
            IF FirstBadInt(parts) # 0 THEN Raised(ValueError("invalid literal for int()"), errlog)
            ELSE Returned(ToSeconds(FoldHours(IntOf(parts[1]).val, IntOf(parts[2]).val),
                                    IntOf(parts[3]).val), <<>>)
        ELSE Raised(ValueError("Formato tempo non valido. Usa MM:SS o HH:MM:SS"), errlog)

----------------------------------------------------------------------------
(* parse_intervals *)

MinOf(a, b) == IF a < b THEN a ELSE b

(* mutant: a leading '-' is taken as a sign, '-' in interval[1:] *)
HasDashAfterFirst(interval) == \E i \in 2..Len(interval) : interval[i] = "-"

(* '-' in interval *)
HasDash(interval) == Contains(interval, "-")

(* start, end = map(parse_time, interval.split('-')): the lazy map is pulled *)
(* once per target and once more to see that it is exhausted                *)
UnpackTimes(parts) ==
    LET look == MinOf(Len(parts), UnpackTargets + 1)
        res == [i \in 1..look |-> parse_time(parts[i])]
        bad == { i \in 1..look : ~res[i].ok }
    IN  IF bad # {}
        THEN LET k == CHOOSE i \in bad : \A j \in bad : i <= j
             IN  Raised(res[k].exc, res[k].log)
        ELSE IF Len(parts) > UnpackTargets
        THEN Raised(ValueError("too many values to unpack (expected 2)"), <<>>)
        ELSE Returned(<<res[1].val, res[2].val>>, <<>>)

(* start = parse_time(interval); end = start + 60 *)
BareInterval(interval) ==
    LET r == parse_time(interval)
    IN  IF r.ok THEN Returned(<<r.val, r.val + DefaultWindow>>, <<>>)
        ELSE Raised(r.exc, r.log)

(* the body of the for loop, for one comma separated token *)
ProcessToken(interval) ==
    IF HasDash(interval) THEN UnpackTimes(SplitOn(interval, "-"))
    ELSE BareInterval(interval)

(* mutant: intervals.insert(0, (start, end)) *)
RECURSIVE LoopTokensPrepend(_, _, _)
LoopTokensPrepend(tokens, acc, l) ==
    IF Len(tokens) = 0 THEN Returned(acc, l)
    ELSE LET r == ProcessToken(tokens[1])
         IN  IF r.ok THEN LoopTokensPrepend(Tail(tokens), <<r.val>> \o acc, l \o r.log)
             ELSE Raised(r.exc, (l \o r.log) \o <<"ERROR parse_intervals">>)

(* mutant: a token that raises is logged and skipped *)
RECURSIVE LoopTokensSkipBad(_, _, _)
LoopTokensSkipBad(tokens, acc, l) ==
    IF Len(tokens) = 0 THEN Returned(acc, l)
    ELSE LET r == ProcessToken(tokens[1])
         IN  IF r.ok THEN LoopTokensSkipBad(Tail(tokens), Append(acc, r.val), l \o r.log)
             ELSE LoopTokensSkipBad(Tail(tokens), acc,
                                    (l \o r.log) \o <<"ERROR parse_intervals">>)

(* the for loop: intervals.append((start, end)) until a token raises *)
RECURSIVE LoopTokens(_, _, _)
LoopTokens(tokens, acc, l) ==
    IF Len(tokens) = 0 THEN Returned(acc, l)
    ELSE LET r == ProcessToken(tokens[1])
         IN  IF r.ok THEN LoopTokens(Tail(tokens), Append(acc, r.val), l \o r.log)
             ELSE Raised(r.exc, (l \o r.log) \o <<"ERROR parse_intervals">>)

(* parse_intervals(intervals_str) *)
parse_intervals(intervals_str) == LoopTokens(SplitOn(intervals_str, ","), <<>>, <<>>)

----------------------------------------------------------------------------
(* Inputs *)

Components ==
    { <<>>, <<"1">>, <<"3", "0">>, <<"9", "0">>, <<"-", "1">>, <<"x">>,
      <<" ", "2">>, <<"+", "3">>, <<"1", "_", "0">> }

SeqsUpTo(S, n) == UNION { [1..k -> S] : k \in 1..n }

TimeShapes == SeqsUpTo(Components, MaxComps)

TimeSamples ==
    { <<"1", ":", "3", "0">>, <<"1", ":", "0", "1", ":", "3", "0">>, <<>>, <<"1", ":">>,
      <<" ">> }

(* the sample times that are well formed *)
GoodSamples == { <<"1", ":", "3", "0">>, <<"1", ":", "0", "1", ":", "3", "0">> }

(* parts after the first UnpackTargets + 1 are never evaluated *)
MaxParts == UnpackTargets + 1

TokenShapes == SeqsUpTo(TimeSamples, MaxParts)

(* the sample times used in strings of several tokens *)
ListSamples == GoodSamples \cup {<<>>}

ListTokenShapes == SeqsUpTo(ListSamples, MaxParts)

(* every single token, and every list of up to MaxTokens list tokens *)
IntervalShapes == { <<t>> : t \in TokenShapes } \cup SeqsUpTo(ListTokenShapes, MaxTokens)

TokenText(parts) == JoinWith(parts, "-")

IntervalsText(sh) == JoinWith([i \in 1..Len(sh) |-> TokenText(sh[i])], ",")

NoValue == [has |-> FALSE, val |-> <<>>]
Value(v) == [has |-> TRUE, val |-> v]

----------------------------------------------------------------------------
(* Media objects *)

Handle(kind, dur) == [kind |-> kind, closes |-> 0, dur |-> dur]

(* obj.close() *)
Close(h, i) == [h EXCEPT ![i].closes = @ + 1]

(* for clip in clips: clip.close() *)
RECURSIVE CloseEach(_, _)
CloseEach(h, idxs) ==
    IF Len(idxs) = 0 THEN h ELSE CloseEach(Close(h, idxs[1]), Tail(idxs))

(* clip.subclip(t_start, t_end): a new clip lasting t_end - t_start *)
Subclip(t_start, t_end) == Handle("subclip", t_end - t_start)

(* mutant: the comparison inverted *)
NeedsClampInverted(audioDur, videoDur) == audioDur < videoDur

(* audio.duration > video.duration *)
NeedsClamp(audioDur, videoDur) == audioDur > videoDur

(* int(duration // 60), int(duration % 60) *)
MinutesSeconds(duration) == <<duration \div 60, duration % 60>>

MediaError(m) == [type |-> "MediaError", msg |-> m]
AttributeError(m) == [type |-> "AttributeError", msg |-> m]

(* the process ends by main() returning *)
ExitAfterReturn == 0

Durations == {0, 45, 90, 200}

(* INTERVALS arguments given on the command line *)
MainTokenShapes == SeqsUpTo(ListSamples, UnpackTargets)
MainIntervalShapes == SeqsUpTo(MainTokenShapes, MaxTokens)

----------------------------------------------------------------------------
InitParseTime ==
    /\ entry = "parse_time"
    /\ shape \in TimeShapes
    /\ text = JoinWith(shape, ":")
    /\ op = "none" /\ vdur = 0 /\ adur = 0

InitParseIntervals ==
    /\ entry = "parse_intervals"
    /\ shape \in IntervalShapes
    /\ text = IntervalsText(shape)
    /\ op = "none" /\ vdur = 0 /\ adur = 0

InitMain ==
    /\ entry = "main"
    /\ \/ /\ op = "audio" /\ vdur \in Durations /\ adur \in Durations
          /\ shape = <<>> /\ text = <<>>
       \/ /\ op = "extract" /\ vdur \in Durations /\ adur = 0
          /\ shape \in MainIntervalShapes /\ text = IntervalsText(shape)
       \/ /\ op = "length" /\ vdur \in Durations /\ adur = 0
          /\ shape = <<>> /\ text = <<>>

Init ==
    /\ InitParseTime \/ InitParseIntervals \/ InitMain
    /\ pc = "call"
    /\ ret = NoValue
    /\ exc = NoExc
    /\ log = <<>>
    /\ handles = <<>>
    /\ video = 0
    /\ audio = 0
    /\ intervals = <<>>
    /\ clips = <<>>
    /\ calls = <<>>
    /\ attached = 0 - 1
    /\ out = <<>>
    /\ exitStatus = 0 - 1

Finish(r) ==
    /\ ret' = IF r.ok THEN Value(r.val) ELSE NoValue
    /\ exc' = r.exc
    /\ log' = log \o r.log
    /\ pc' = IF r.ok THEN "returned" ELSE "raised"

CallParseTime ==
    /\ pc = "call" /\ entry = "parse_time"
    /\ Finish(parse_time(text))
    /\ UNCHANGED <<entry, shape, text, mediaVars>>

CallParseIntervals ==
    /\ pc = "call" /\ entry = "parse_intervals"
    /\ Finish(parse_intervals(text))
    /\ UNCHANGED <<entry, shape, text, mediaVars>>

----------------------------------------------------------------------------
(* main: dispatch on the selected option *)

Fixed == <<entry, shape, text, op, vdur, adur>>

(* a media engine call raises: the exception reaches the function's except clause *)
EngineRaises(handler, m) ==
    /\ exc' = MediaError(m)
    /\ pc' = handler
    /\ UNCHANGED <<Fixed, ret, log, handles, video, audio, intervals, clips, calls,
                   attached, out, exitStatus>>

(* except Exception as e: logging.error(...); raise *)
LogAndReraise(line) ==
    /\ log' = Append(log, line)
    /\ pc' = "op_raised"
    /\ UNCHANGED <<Fixed, ret, exc, handles, video, audio, intervals, clips, calls,
                   attached, out, exitStatus>>

MainAudio ==
    /\ pc = "call" /\ entry = "main" /\ op = "audio"
    /\ log' = Append(log, "INFO Avvio montaggio audio")
    /\ pc' = "ma_open_video"
    /\ UNCHANGED <<Fixed, ret, exc, handles, video, audio, intervals, clips, calls,
                   attached, out, exitStatus>>

(* intervals = parse_intervals(args.extract[1]) *)
MainExtract ==
    /\ pc = "call" /\ entry = "main" /\ op = "extract"
    /\ LET r == parse_intervals(text)
       IN  /\ log' = Append(log, "INFO Avvio estrazione intervalli") \o r.log
           /\ exc' = r.exc
           /\ intervals' = r.val
           /\ pc' = IF r.ok THEN "ei_open_video" ELSE "main_except"
    /\ UNCHANGED <<Fixed, ret, handles, video, audio, clips, calls, attached, out,
                   exitStatus>>

MainLength ==
    /\ pc = "call" /\ entry = "main" /\ op = "length"
    /\ log' = Append(log, "INFO Richiesta lunghezza video")
    /\ pc' = "gl_open_video"
    /\ UNCHANGED <<Fixed, ret, exc, handles, video, audio, intervals, clips, calls,
                   attached, out, exitStatus>>

(* logging.info("Operazione completata con successo") *)
MainSuccess ==
    /\ pc = "op_returned"
    /\ out' = IF op = "length" THEN Append(out, "La lunghezza del video e' ...") ELSE out
    /\ log' = Append(log, "INFO Operazione completata con successo")
    /\ pc' = "exit"
    /\ exitStatus' = ExitAfterReturn
    /\ UNCHANGED <<Fixed, ret, exc, handles, video, audio, intervals, clips, calls,
                   attached>>

(* mutant: the handler ends the process with sys.exit(1) *)
MainExceptExits1 ==
    /\ pc \in {"main_except", "op_raised"}
    /\ log' = Append(log, "ERROR Si e' verificato un errore durante l'esecuzione")
    /\ out' = Append(out, "Si e' verificato un errore. Controlla il file log.txt per i dettagli.")
    /\ pc' = "exit"
    /\ exitStatus' = 1
    /\ UNCHANGED <<Fixed, ret, exc, handles, video, audio, intervals, clips, calls,
                   attached>>

(* except Exception as e: logging.error(...); print(...) *)
MainExcept ==
    /\ pc \in {"main_except", "op_raised"}
    /\ log' = Append(log, "ERROR Si e' verificato un errore durante l'esecuzione")
    /\ out' = Append(out, "Si e' verificato un errore. Controlla il file log.txt per i dettagli.")
    /\ pc' = "exit"
    /\ exitStatus' = ExitAfterReturn
    /\ UNCHANGED <<Fixed, ret, exc, handles, video, audio, intervals, clips, calls,
                   attached>>

----------------------------------------------------------------------------
(* montaggio_audio *)

(* video = VideoFileClip(video_input) *)
MA_OpenVideo ==
    /\ pc = "ma_open_video"
    /\ handles' = Append(handles, Handle("VideoFileClip", vdur))
    /\ video' = Len(handles) + 1
    /\ pc' = "ma_open_audio"
    /\ UNCHANGED <<Fixed, ret, exc, log, audio, intervals, clips, calls, attached, out,
                   exitStatus>>

MA_OpenVideoFails ==
    /\ pc = "ma_open_video"
    /\ EngineRaises("ma_except", "open video")

(* audio = VideoFileClip(audio_input).audio: the clip and its audio track are two *)
(* objects; the track is None when the input carries no audio                     *)
MA_OpenAudio ==
    /\ pc = "ma_open_audio"
    /\ \E hasAudio \in BOOLEAN :
        IF hasAudio
        THEN /\ handles' = handles \o <<Handle("VideoFileClip", adur),
                                        Handle("AudioFileClip", adur)>>
             /\ audio' = Len(handles) + 2
        ELSE /\ handles' = Append(handles, Handle("VideoFileClip", adur))
             /\ audio' = 0
    /\ pc' = "ma_clamp"
    /\ UNCHANGED <<Fixed, ret, exc, log, video, intervals, clips, calls, attached, out,
                   exitStatus>>

MA_OpenAudioFails ==
    /\ pc = "ma_open_audio"
    /\ EngineRaises("ma_except", "open audio")

(* if audio.duration > video.duration: audio = audio.subclip(0, video.duration) *)
MA_Clamp ==
    /\ pc = "ma_clamp" /\ audio # 0
    /\ IF NeedsClamp(handles[audio].dur, handles[video].dur)
       THEN /\ handles' = Append(handles, Subclip(0, handles[video].dur))
            /\ audio' = Len(handles) + 1
       ELSE UNCHANGED <<handles, audio>>
    /\ pc' = "ma_set_audio"
    /\ UNCHANGED <<Fixed, ret, exc, log, video, intervals, clips, calls, attached, out,
                   exitStatus>>

(* audio is None: audio.duration raises AttributeError *)
MA_NoAudioTrack ==
    /\ pc = "ma_clamp" /\ audio = 0
    /\ exc' = AttributeError("'NoneType' object has no attribute 'duration'")
    /\ pc' = "ma_except"
    /\ UNCHANGED <<Fixed, ret, log, handles, video, audio, intervals, clips, calls,
                   attached, out, exitStatus>>

(* final_video = video.set_audio(audio) *)
MA_SetAudio ==
    /\ pc = "ma_set_audio"
    /\ attached' = handles[audio].dur
    /\ handles' = Append(handles, Handle("composite", handles[video].dur))
    /\ pc' = "ma_write"
    /\ UNCHANGED <<Fixed, ret, exc, log, video, audio, intervals, clips, calls, out,
                   exitStatus>>

(* final_video.write_videofile(...); video.close(); audio.close(); logging.info(...) *)
MA_WriteAndClose ==
    /\ pc = "ma_write"
    /\ handles' = Close(Close(handles, video), audio)
    /\ log' = Append(log, "INFO Montaggio audio completato")
    /\ pc' = "op_returned"
    /\ UNCHANGED <<Fixed, ret, exc, video, audio, intervals, clips, calls, attached, out,
                   exitStatus>>

MA_WriteFails ==
    /\ pc = "ma_write"
    /\ EngineRaises("ma_except", "write_videofile")

MA_Except ==
    /\ pc = "ma_except"
    /\ LogAndReraise("ERROR Errore durante il montaggio audio")

----------------------------------------------------------------------------
(* estrai_intervalli *)

(* video = VideoFileClip(video_input); clips = [] *)
EI_OpenVideo ==
    /\ pc = "ei_open_video"
    /\ handles' = Append(handles, Handle("VideoFileClip", vdur))
    /\ video' = Len(handles) + 1
    /\ pc' = "ei_loop"
    /\ UNCHANGED <<Fixed, ret, exc, log, audio, intervals, clips, calls, attached, out,
                   exitStatus>>

EI_OpenVideoFails ==
    /\ pc = "ei_open_video"
    /\ EngineRaises("ei_except", "open video")

(* the (start, end) handed to video.subclip for an interval *)
SubclipArgs(iv) == <<iv[1], iv[2]>>

(* for start, end in intervals: clip = video.subclip(start, end); clips.append(clip) *)
EI_Subclip ==
    /\ pc = "ei_loop" /\ Len(calls) < Len(intervals)
    /\ LET a == SubclipArgs(intervals[Len(calls) + 1])
       IN  /\ calls' = Append(calls, a)
           /\ handles' = Append(handles, Subclip(a[1], a[2]))
           /\ clips' = Append(clips, Len(handles) + 1)
    /\ UNCHANGED <<Fixed, pc, ret, exc, log, video, audio, intervals, attached, out,
                   exitStatus>>

(* video.subclip raises, e.g. on an interval outside the video *)
EI_SubclipFails ==
    /\ pc = "ei_loop" /\ Len(calls) < Len(intervals)
    /\ calls' = Append(calls, SubclipArgs(intervals[Len(calls) + 1]))
    /\ exc' = MediaError("subclip")
    /\ pc' = "ei_except"
    /\ UNCHANGED <<Fixed, ret, log, handles, video, audio, intervals, clips, attached,
                   out, exitStatus>>

(* final_video = concatenate_videoclips(clips) *)
EI_Concat ==
    /\ pc = "ei_loop" /\ Len(calls) = Len(intervals)
    /\ handles' = Append(handles, Handle("composite", 0))
    /\ pc' = "ei_write"
    /\ UNCHANGED <<Fixed, ret, exc, log, video, audio, intervals, clips, calls, attached,
                   out, exitStatus>>

EI_ConcatFails ==
    /\ pc = "ei_loop" /\ Len(calls) = Len(intervals)
    /\ EngineRaises("ei_except", "concatenate_videoclips")

(* final_video.write_videofile(...); video.close(); for clip in clips: clip.close() *)
EI_WriteAndClose ==
    /\ pc = "ei_write"
    /\ handles' = CloseEach(Close(handles, video), clips)
    /\ log' = Append(log, "INFO Estrazione intervalli completata")
    /\ pc' = "op_returned"
    /\ UNCHANGED <<Fixed, ret, exc, video, audio, intervals, clips, calls, attached, out,
                   exitStatus>>

EI_WriteFails ==
    /\ pc = "ei_write"
    /\ EngineRaises("ei_except", "write_videofile")

EI_Except ==
    /\ pc = "ei_except"
    /\ LogAndReraise("ERROR Errore durante l'estrazione degli intervalli")

----------------------------------------------------------------------------
(* get_video_length *)

(* video = VideoFileClip(video_input) ... video.close(); return minutes, seconds *)
GL_Measure ==
    /\ pc = "gl_open_video"
    /\ handles' = Close(Append(handles, Handle("VideoFileClip", vdur)), Len(handles) + 1)
    /\ video' = Len(handles) + 1
    /\ ret' = Value(MinutesSeconds(vdur))
    /\ log' = Append(log, "INFO Lunghezza video ottenuta")
    /\ pc' = "op_returned"
    /\ UNCHANGED <<Fixed, exc, audio, intervals, clips, calls, attached, out, exitStatus>>

GL_OpenFails ==
    /\ pc = "gl_open_video"
    /\ EngineRaises("gl_except", "open video")

GL_Except ==
    /\ pc = "gl_except"
    /\ LogAndReraise("ERROR Errore nell'ottenere la lunghezza del video")

----------------------------------------------------------------------------
Next ==
    \/ CallParseTime \/ CallParseIntervals
    \/ MainAudio \/ MainExtract \/ MainLength \/ MainSuccess \/ MainExcept
    \/ MA_OpenVideo \/ MA_OpenVideoFails \/ MA_OpenAudio \/ MA_OpenAudioFails
    \/ MA_Clamp \/ MA_NoAudioTrack \/ MA_SetAudio \/ MA_WriteAndClose \/ MA_WriteFails
    \/ MA_Except
    \/ EI_OpenVideo \/ EI_OpenVideoFails \/ EI_Subclip \/ EI_SubclipFails
    \/ EI_Concat \/ EI_ConcatFails \/ EI_WriteAndClose \/ EI_WriteFails \/ EI_Except
    \/ GL_Measure \/ GL_OpenFails \/ GL_Except

Spec == Init /\ [][Next]_vars

----------------------------------------------------------------------------
(* Reference values of the generated inputs, stated independently of the    *)
(* parser: what each component and each sample time is meant to denote.     *)

GoodComponents ==
    { <<"1">>, <<"3", "0">>, <<"9", "0">>, <<"-", "1">>, <<" ", "2">>, <<"+", "3">>,
      <<"1", "_", "0">> }

ComponentValue(c) ==
    CASE c = <<"1">> -> 1
      [] c = <<"3", "0">> -> 30
      [] c = <<"9", "0">> -> 90
      [] c = <<"-", "1">> -> 0 - 1
      [] c = <<" ", "2">> -> 2
      [] c = <<"+", "3">> -> 3
      [] c = <<"1", "_", "0">> -> 10

IntegerTokens(sh) == \A i \in 1..Len(sh) : sh[i] \in GoodComponents

WellFormedTime(sh) == Len(sh) \in {2, 3} /\ IntegerTokens(sh)

WellFormedToken(parts) ==
    Len(parts) \in {1, 2} /\ \A i \in 1..Len(parts) : parts[i] \in GoodSamples

TimeDone == entry = "parse_time" /\ pc # "call"
IntervalsDone == entry = "parse_intervals" /\ pc # "call"

----------------------------------------------------------------------------
(* C1: a text of 2 integer tokens (m, s) gives m*60 + s and a text of 3    *)
(* integer tokens (h, m, s) gives (h*60 + m)*60 + s, whatever the integer  *)
(* values: components >= 60 do not roll over and negative ones are kept.   *)
C1_ParseTimeValue ==
    (TimeDone /\ WellFormedTime(shape)) =>
        /\ pc = "returned"
        /\ ret.has
        /\ ret.val = IF Len(shape) = 2
                     THEN ComponentValue(shape[1]) * 60 + ComponentValue(shape[2])
                     ELSE (ComponentValue(shape[1]) * 60 + ComponentValue(shape[2])) * 60
                          + ComponentValue(shape[3])

C1_Witness ==
    /\ TimeDone /\ pc = "returned"
    /\ shape = << <<"-", "1">>, <<"9", "0">>, <<"3", "0">> >>
    /\ ret.val = 1830

(* C2: a text that is not 2 or 3 integer tokens makes parse_time raise     *)
(* ValueError, and no value is returned.                                    *)
C2_ParseTimeRejects ==
    (TimeDone /\ ~WellFormedTime(shape)) =>
        /\ pc = "raised"
        /\ exc.type = "ValueError"
        /\ ~ret.has

C2_Witness ==
    /\ TimeDone /\ pc = "raised"
    /\ Len(shape) = 4 /\ IntegerTokens(shape)
    /\ exc.type = "ValueError"

(* C3: when every comma separated token is well formed, parse_intervals    *)
(* returns one interval per token, in token order: (parse_time(a),         *)
(* parse_time(b)) for 'a-b' and (parse_time(a), parse_time(a) + 60) for a  *)
(* bare 'a'; nothing is merged, sorted or dropped.                          *)
ExpectedInterval(parts) ==
    IF Len(parts) = 2 THEN <<parse_time(parts[1]).val, parse_time(parts[2]).val>>
    ELSE <<parse_time(parts[1]).val, parse_time(parts[1]).val + 60>>

C3_IntervalsInOrder ==
    (IntervalsDone /\ \A i \in 1..Len(shape) : WellFormedToken(shape[i])) =>
        /\ pc = "returned"
        /\ ret.has
        /\ Len(ret.val) = Len(shape)
        /\ \A i \in 1..Len(shape) : ret.val[i] = ExpectedInterval(shape[i])

C3_Witness ==
    /\ IntervalsDone /\ pc = "returned"
    /\ Len(shape) = 2 /\ Len(shape[1]) = 2 /\ Len(shape[2]) = 1
    /\ ret.val = << <<3690, 90>>, <<90, 150>> >>

(* C4: if any token is malformed the call raises the error of the first    *)
(* malformed token and returns nothing, whatever well formed tokens came   *)
(* before it.                                                               *)
Malformed(sh) == { i \in 1..Len(sh) : ~WellFormedToken(sh[i]) }

FirstMalformed(sh) == CHOOSE i \in Malformed(sh) : \A j \in Malformed(sh) : i <= j

C4_AllOrNothing ==
    (IntervalsDone /\ Malformed(shape) # {}) =>
        /\ pc = "raised"
        /\ ~ret.has
        /\ exc = ProcessToken(TokenText(shape[FirstMalformed(shape)])).exc
        /\ exc.type = "ValueError"

C4_Witness ==
    /\ IntervalsDone /\ pc = "raised"
    /\ Len(shape) = 2
    /\ WellFormedToken(shape[1])
    /\ ~WellFormedToken(shape[2])

(* C5: rendering each returned interval as 'M:S-M:S', joined by ',', and   *)
(* parsing that string again returns the same list.                         *)
RECURSIVE Decimal(_)
Decimal(n) ==
    IF n < 0 THEN <<"-">> \o Decimal(0 - n)
    ELSE IF n < 10 THEN <<CHOOSE d \in Digits : DigitVal(d) = n>>
    ELSE Decimal(n \div 10) \o Decimal(n % 10)

RenderTime(t) == Decimal(t \div 60) \o <<":">> \o Decimal(t % 60)

RenderInterval(iv) == RenderTime(iv[1]) \o <<"-">> \o RenderTime(iv[2])

Canonical(L) == JoinWith([i \in 1..Len(L) |-> RenderInterval(L[i])], ",")

C5_RoundTrip ==
    (IntervalsDone /\ pc = "returned") =>
        LET again == parse_intervals(Canonical(ret.val))
        IN  again.ok /\ again.val = ret.val

C5_Witness ==
    /\ IntervalsDone /\ pc = "returned"
    /\ ret.val = << <<90, 3690>>, <<3690, 3750>> >>
    /\ Canonical(ret.val) # text

(* C10: no interval returned by parse_intervals has a negative component:  *)
(* a token with a '-' used as a sign (at its start, after ':' or after     *)
(* another '-', blanks aside) is split on it and the call raises           *)
(* ValueError.                                                              *)
SignDash(tok) ==
    \E i \in 1..Len(tok) :
        /\ tok[i] = "-"
        /\ LET before == RStrip(SubSeq(tok, 1, i - 1))
           IN  Len(before) = 0 \/ before[Len(before)] \in {":", "-"}

TimesOf(tok) == IF Contains(tok, "-") THEN SplitOn(tok, "-") ELSE <<tok>>

NoNegativeComponent(t) ==
    \A k \in 1..Len(SplitOn(t, ":")) : IntOf(SplitOn(t, ":")[k]).val >= 0

C10_NoNegativeTime ==
    IntervalsDone =>
        LET toks == SplitOn(text, ",")
        IN  /\ (\E i \in 1..Len(toks) : SignDash(toks[i])) =>
                    (pc = "raised" /\ exc.type = "ValueError" /\ ~ret.has)
            /\ pc = "returned" =>
                    /\ \A i \in 1..Len(ret.val) : ret.val[i][1] >= 0 /\ ret.val[i][2] >= 0
                    /\ \A i \in 1..Len(toks) : \A j \in 1..Len(TimesOf(toks[i])) :
                            NoNegativeComponent(TimesOf(toks[i])[j])

C10_Witness ==
    /\ IntervalsDone /\ pc = "raised"
    /\ text = <<"-", "1", ":", "3", "0">>
    /\ parse_time(text).ok /\ parse_time(text).val = 0 - 30
    /\ exc.type = "ValueError"

----------------------------------------------------------------------------
(* Claims on the media operations and on main *)

ClipOrSubclip(h) == h.kind \in {"VideoFileClip", "subclip"}

(* C6: when a media operation returns normally, every VideoFileClip it     *)
(* constructed and every subclip it derived has been closed exactly once.  *)
C6_ClosedOnSuccess ==
    pc = "op_returned" =>
        \A i \in 1..Len(handles) : ClipOrSubclip(handles[i]) => handles[i].closes = 1

(* C7: when a step of a media operation raises after a handle was opened,  *)
(* every handle already opened is closed exactly once before the error     *)
(* leaves the operation.                                                    *)
C7_ClosedOnFailure ==
    pc = "op_raised" =>
        \A i \in 1..Len(handles) : ClipOrSubclip(handles[i]) => handles[i].closes = 1

(* C8: whatever the selected operation raises, main logs it at error       *)
(* level, prints exactly the one generic message, does not log the success *)
(* line, and the process ends with the exit status of a successful run.    *)
GenericMessage == "Si e' verificato un errore. Controlla il file log.txt per i dettagli."
SuccessLine == "INFO Operazione completata con successo"

Failed == exc.type # "none"

C8_SingleFailurePath ==
    (entry = "main" /\ pc = "exit") =>
        /\ exitStatus = 0
        /\ Failed =>
            /\ log[Len(log)] = "ERROR Si e' verificato un errore durante l'esecuzione"
            /\ out = <<GenericMessage>>
            /\ \A i \in 1..Len(log) : log[i] # SuccessLine
        /\ ~Failed => log[Len(log)] = SuccessLine

C8_Witness ==
    /\ entry = "main" /\ pc = "exit"
    /\ exc.type = "MediaError" /\ exc.msg = "write_videofile"
    /\ out = <<GenericMessage>>
    /\ exitStatus = 0

(* C9: the audio attached by montaggio_audio never lasts longer than the   *)
(* video: a longer audio is cut to [0, video duration], a shorter one is   *)
(* attached as it is; estrai_intervalli hands every (start, end) to        *)
(* subclip as given.                                                        *)
C9_AudioClampOnly ==
    /\ attached # 0 - 1 =>
        /\ attached <= vdur
        /\ attached = IF adur > vdur THEN vdur ELSE adur
        /\ handles[audio].kind = IF adur > vdur THEN "subclip" ELSE "AudioFileClip"
    /\ \A i \in 1..Len(calls) : calls[i] = intervals[i]

C9_Witness ==
    /\ op = "audio" /\ adur > vdur /\ attached = vdur /\ pc = "op_returned"

C9_WitnessNoClamp ==
    /\ op = "extract" /\ pc = "op_returned"
    /\ \E i \in 1..Len(calls) : calls[i][2] > vdur /\ calls[i][2] < calls[i][1]

====
